---- MODULE Spec2Model ----
(***************************************************************************)
(* A model of hypertab/cleanse_tables.py: the six tree-rewriting passes    *)
(* that parse_html_to_markdown_friendly_html applies, in order, to the     *)
(* BeautifulSoup tree of an HTML document.                                 *)
(*                                                                         *)
(* The tree is a heap of nodes, as bs4 keeps it: every node has an         *)
(* identity (its index in the heap), a parent pointer and an ordered list  *)
(* of children.  A string is a sequence of one-character strings, so that  *)
(* stripping, joining and prefixing are computed, not assumed.             *)
(***************************************************************************)
EXTENDS Integers, Sequences, FiniteSets, TLC

VARIABLES html, soup, prev, pc

vars == <<html, soup, prev, pc>>

(***************************************************************************)
(* Bounds of the input families.                                           *)
(***************************************************************************)
\* the most rows of a flat input table
MaxRows == 3
\* the deepest nesting of tables inside tables of a nested input
MaxDepth == 2

(***************************************************************************)
(* bs4's tree: nodes, strings, navigation.                                 *)
(***************************************************************************)
Root == 1

None == 0

NoAttrs == [a \in {} |-> ""]

CellTags == {"td", "th"}

Tag(name, parent, attrs) ==
    [tag |-> name, parent |-> parent, attrs |-> attrs, kids |-> <<>>, str |-> <<>>]

NavigableString(parent, s) ==
    [tag |-> "#text", parent |-> parent, attrs |-> NoAttrs, kids |-> <<>>, str |-> s]

\* what decompose() leaves of a node: no name, no attributes, no contents
Decomposed ==
    [tag |-> "#decomposed", parent |-> None, attrs |-> NoAttrs, kids |-> <<>>, str |-> <<>>]

Min(a, b) == IF a < b THEN a ELSE b

\* the sequence f as a tuple of values
Tuple(f) == f \o <<>>

\* for x in xs: h = Body(h, x).  The loop variable h is evaluated before the
\* body is applied to it, so that one iteration is computed after the other.
RECURSIVE ForEach(_, _, _)
ForEach(Body(_, _), h, xs) ==
    IF h = h /\ xs # <<>>
    THEN ForEach(Body, Body(h, Head(xs)), Tail(xs))
    ELSE h

RECURSIVE Concat(_)
Concat(ss) == IF ss = <<>> THEN <<>> ELSE Head(ss) \o Concat(Tail(ss))

\* Tag.descendants: the nodes below n, in document order
RECURSIVE Descendants(_, _)
Descendants(h, n) ==
    Concat(Tuple([i \in 1..Len(h[n].kids) |->
                     <<h[n].kids[i]>> \o Descendants(h, h[n].kids[i])]))

\* Tag.find_all(names): the element descendants with one of the names
find_all(h, n, names) ==
    SelectSeq(Descendants(h, n), LAMBDA x : h[x].tag \in names)

\* Tag.find_all(names, attr=True): those that carry the attribute
find_all_with(h, n, names, attr) ==
    SelectSeq(Descendants(h, n),
              LAMBDA x : h[x].tag \in names /\ attr \in DOMAIN h[x].attrs)

\* the ancestors of n, the nearest first
RECURSIVE Ancestors(_, _)
Ancestors(h, n) ==
    IF h[n].parent = None THEN <<>>
    ELSE <<h[n].parent>> \o Ancestors(h, h[n].parent)

TableAncestors(h, n) == SelectSeq(Ancestors(h, n), LAMBDA a : h[a].tag = "table")

IsNested(h, n) == TableAncestors(h, n) # <<>>

Whitespace == {" ", "\n"}

RECURSIVE lstrip(_)
lstrip(s) ==
    IF s # <<>> /\ Head(s) \in Whitespace THEN lstrip(Tail(s)) ELSE s

RECURSIVE rstrip(_)
rstrip(s) ==
    IF s # <<>> /\ s[Len(s)] \in Whitespace
    THEN rstrip(SubSeq(s, 1, Len(s) - 1))
    ELSE s

\* str.strip()
strip(s) == rstrip(lstrip(s))

\* Tag.get_text(strip=True): the stripped strings below n, the empty ones
\* dropped, joined by ""
get_text(h, n) ==
    LET strings == SelectSeq(Descendants(h, n), LAMBDA x : h[x].tag = "#text")
    IN Concat(Tuple([i \in 1..Len(strings) |-> strip(h[strings[i]].str)]))

\* Tag.index(child): the position of the child itself (by identity), from 0
index(h, p, c) ==
    (CHOOSE i \in 1..Len(h[p].kids) : h[p].kids[i] = c) - 1

\* list.index(x) on a ResultSet: the first element EQUAL to x, from 0;
\* Tag.__eq__ compares name, attributes and contents, not identity
RECURSIVE Markup(_, _)
Markup(h, n) ==
    [tag |-> h[n].tag, attrs |-> h[n].attrs, str |-> h[n].str,
     kids |-> Tuple([i \in 1..Len(h[n].kids) |-> Markup(h, h[n].kids[i])])]

list_index(h, seq, x) ==
    (CHOOSE i \in 1..Len(seq) :
        /\ Markup(h, seq[i]) = Markup(h, x)
        /\ \A j \in 1..(i - 1) : Markup(h, seq[j]) # Markup(h, x)) - 1

(***************************************************************************)
(* bs4's tree: mutation.                                                   *)
(***************************************************************************)
\* PageElement.extract(): detach n (with its subtree) from its parent
extract(h, n) ==
    IF h[n].parent = None THEN h
    ELSE LET p == h[n].parent
         IN [h EXCEPT
               ![p].kids = SelectSeq(@, LAMBDA k : k # n),
               ![n].parent = None]

\* Tag.insert(position, child) for a detached child: the position is capped
\* at the number of children
insert(h, p, position, c) ==
    LET at == Min(position, Len(h[p].kids))
    IN [h EXCEPT
          ![p].kids = SubSeq(@, 1, at) \o <<c>> \o SubSeq(@, at + 1, Len(@)),
          ![c].parent = p]

\* PageElement.insert_before(c): c is extracted, then inserted in n's parent
\* at n's position
insert_before(h, n, c) ==
    LET h1 == extract(h, c)
        p == h1[n].parent
    IN insert(h1, p, index(h1, p, n), c)

\* a new node, not yet in the tree; its identity is Len(h) + 1
new_node(h, node) == Append(h, node)

\* PageElement.insert_before(str): the string becomes a new NavigableString
insert_string_before(h, n, s) ==
    insert_before(new_node(h, NavigableString(None, s)), n, Len(h) + 1)

\* PageElement.replace_with(str): n is extracted and a new NavigableString
\* takes its position in its parent
replace_with(h, n, s) ==
    LET p == h[n].parent
        at == index(h, p, n)
        h1 == new_node(extract(h, n), NavigableString(None, s))
    IN insert(h1, p, at, Len(h) + 1)

\* Tag.decompose(): n is extracted and it and everything below it destroyed
decompose(h, n) ==
    LET gone == {n} \cup {Descendants(h, n)[i] : i \in 1..Len(Descendants(h, n))}
        h1 == extract(h, n)
    IN Tuple([i \in 1..Len(h1) |-> IF i \in gone THEN Decomposed ELSE h1[i]])

(***************************************************************************)
(* Pass 1: flatten_single_column_tables.                                   *)
(***************************************************************************)
\* a variant: "".join(f"- {item}\n" for item in items)
RECURSIVE bullet_lines(_)
bullet_lines(items) ==
    IF items = <<>> THEN <<>>
    ELSE <<"-", " ">> \o Head(items) \o <<"\n">> \o bullet_lines(Tail(items))

\* "\n".join(f"- {item}" for item in items)
RECURSIVE bullet_list(_)
bullet_list(items) ==
    IF items = <<>> THEN <<>>
    ELSE <<"-", " ">> \o Head(items)
         \o (IF Tail(items) = <<>> THEN <<>>
             ELSE <<"\n">> \o bullet_list(Tail(items)))

\* all(len(row.find_all(["td", "th"])) == 1 for row in rows); true of no rows
single_column(h, table) ==
    LET rows == find_all(h, table, {"tr"})
    IN \A i \in 1..Len(rows) : Len(find_all(h, rows[i], CellTags)) = 1

\* [cell.get_text(strip=True) for row in rows for cell in row.find_all(...)]
cell_items(h, table) ==
    LET rows == find_all(h, table, {"tr"})
    IN Concat(Tuple([i \in 1..Len(rows) |->
                  LET cells == find_all(h, rows[i], CellTags)
                  IN Tuple([j \in 1..Len(cells) |-> get_text(h, cells[j])])]))

\* the body of the loop, for one table of the snapshot
flatten_table(h, table) ==
    IF single_column(h, table)
    THEN replace_with(h, table, bullet_list(cell_items(h, table)))
    ELSE h

\* a variant: only the tables that lie in no other table are visited
flatten_top_level_tables(h) ==
    ForEach(flatten_table, h,
            SelectSeq(find_all(h, Root, {"table"}), LAMBDA t : ~IsNested(h, t)))

\* every table of the tree, nested ones included, as found before the loop
flatten_single_column_tables(h) ==
    ForEach(flatten_table, h, find_all(h, Root, {"table"}))

(***************************************************************************)
(* Pass 2: promote_top_row_headers.                                        *)
(***************************************************************************)
\* rows and len(rows[0].find_all(cells, colspan=True)) == len(rows[0].find_all(cells))
top_row_is_header(h, table) ==
    LET rows == find_all(h, table, {"tr"})
    IN /\ rows # <<>>
       /\ Len(find_all_with(h, rows[1], CellTags, "colspan"))
             = Len(find_all(h, rows[1], CellTags))

\* f"## {header}\n"
heading(header) == <<"#", "#", " ">> \o header \o <<"\n">>

promote_table(h, table) ==
    IF top_row_is_header(h, table)
    THEN LET row == find_all(h, table, {"tr"})[1]
             header == get_text(h, row)
         IN insert_string_before(decompose(h, row), table, heading(header))
    ELSE h

promote_top_row_headers(h) ==
    ForEach(promote_table, h, find_all(h, Root, {"table"}))

(***************************************************************************)
(* Pass 3: unnest_nested_tables.                                           *)
(***************************************************************************)
\* a variant: only the tables that are children of a cell of the table's own
\* rows are hoisted, and what lies inside them stays inside them
unnest_one_level(h, table) ==
    ForEach(LAMBDA g, nested_table :
                insert_before(extract(g, nested_table), table, nested_table),
            h, SelectSeq(find_all(h, table, {"table"}),
                         LAMBDA n : TableAncestors(h, n)[1] = table))

\* for nested_table in nested_tables: table.insert_before(nested_table.extract())
unnest_table(h, table) ==
    ForEach(LAMBDA g, nested_table :
                insert_before(extract(g, nested_table), table, nested_table),
            h, find_all(h, table, {"table"}))

unnest_nested_tables(h) ==
    ForEach(unnest_table, h, find_all(h, Root, {"table"}))

(***************************************************************************)
(* Pass 4: rebuild_tables_with_span_attributes.  int() raises ValueError   *)
(* on a string that is no integer literal, and nothing catches it: the     *)
(* state of the pass is the tree and whether the pass is still running.    *)
(***************************************************************************)
Digits == <<"0", "1", "2", "3", "4">>

\* whether int(s) returns, for s of the attribute alphabet
is_int_literal(s) == \E d \in 1..Len(Digits) : Digits[d] = s

\* int(s), for an integer literal
int(s) == (CHOOSE d \in 1..Len(Digits) : Digits[d] = s) - 1

\* whether int(cell.get(attr, 1)) returns
span_parses(h, cell, attr) ==
    attr \in DOMAIN h[cell].attrs => is_int_literal(h[cell].attrs[attr])

\* int(cell.get(attr, 1))
span(h, cell, attr) ==
    IF attr \in DOMAIN h[cell].attrs THEN int(h[cell].attrs[attr]) ELSE 1

\* cell.attrs.pop(attr, None)
pop_attr(h, cell, attr) ==
    [h EXCEPT ![cell].attrs =
        [a \in DOMAIN @ \ {attr} |-> @[a]]]

\* new_cell = soup.new_tag(name); new_cell.string = s: a new element whose one
\* child is a new string; the element's identity is Len(h) + 1
new_cell_with_string(h, name, s) ==
    LET c == Len(h) + 1
    IN Append(Append(h, [Tag(name, None, NoAttrs) EXCEPT !.kids = <<c + 1>>]),
              NavigableString(c, s))

\* where a row receives the duplicate of a cell that spans into it from above
rowspan_position(h, r) == Len(find_all(h, r, CellTags))

\* rows[rows.index(row) + 1 : rows.index(row) + rowspan]
next_rows(h, rows, row, rowspan) ==
    LET at == list_index(h, rows, row)
    IN SubSeq(rows, at + 2, Min(at + rowspan, Len(rows)))

\* for r in next_rows: ... r.insert(len(r.find_all(["td", "th"])), new_cell)
duplicate_down(h, cell, targets) ==
    ForEach(LAMBDA g, r :
                LET g1 == new_cell_with_string(g, g[cell].tag, get_text(g, cell))
                IN insert(g1, r, rowspan_position(g1, r), Len(g) + 1),
            h, targets)

\* for _ in range(colspan - 1): ... row.insert(cells.index(cell) + 1, new_cell)
duplicate_right(h, row, cell, times) ==
    ForEach(LAMBDA g, k :
                LET g1 == new_cell_with_string(g, g[cell].tag, get_text(g, cell))
                    at == list_index(g1, find_all(g1, row, CellTags), cell) + 1
                IN insert(g1, row, at, Len(g) + 1),
            h, Tuple([k \in 1..times |-> k]))

\* whether the rowspan attribute is popped once the cell has been duplicated
pops_rowspan(rowspan) == rowspan > 1

\* a variant: the colspan attribute is never popped
keeps_colspan(colspan) == FALSE

\* whether the colspan attribute is popped once the cell has been duplicated
pops_colspan(colspan) == colspan > 1

\* the body of the innermost loop, for one cell
rebuild_cell(st, rows, row, cell) ==
    IF ~st.ok THEN st
    ELSE IF ~span_parses(st.h, cell, "rowspan") \/ ~span_parses(st.h, cell, "colspan")
    THEN [h |-> st.h, ok |-> FALSE]
    ELSE LET rowspan == span(st.h, cell, "rowspan")
             colspan == span(st.h, cell, "colspan")
             h1 == IF rowspan > 1
                   THEN duplicate_down(st.h, cell, next_rows(st.h, rows, row, rowspan))
                   ELSE st.h
             h2 == IF pops_rowspan(rowspan) THEN pop_attr(h1, cell, "rowspan") ELSE h1
             h3 == IF colspan > 1
                   THEN duplicate_right(h2, row, cell, colspan - 1)
                   ELSE h2
             h4 == IF pops_colspan(colspan) THEN pop_attr(h3, cell, "colspan") ELSE h3
         IN [h |-> h4, ok |-> TRUE]

\* the cells of a row are found when the loop reaches the row
rebuild_row(st, rows, row) ==
    ForEach(LAMBDA s, cell : rebuild_cell(s, rows, row, cell),
            st, find_all(st.h, row, CellTags))

\* the rows of a table are found when the loop reaches the table
rebuild_table(st, table) ==
    LET rows == find_all(st.h, table, {"tr"})
    IN ForEach(LAMBDA s, row : rebuild_row(s, rows, row), st, rows)

rebuild_tables_with_span_attributes(h) ==
    ForEach(rebuild_table, [h |-> h, ok |-> TRUE], find_all(h, Root, {"table"}))

(***************************************************************************)
(* Pass 5: combine_adjacent_empty_rows.                                    *)
(***************************************************************************)
\* a variant: or in the place of and
either_empty(h, rows, i) ==
    get_text(h, rows[i]) = <<>> \/ get_text(h, rows[i + 1]) = <<>>

\* not rows[i].get_text(strip=True) and not rows[i + 1].get_text(strip=True)
both_empty(h, rows, i) ==
    get_text(h, rows[i]) = <<>> /\ get_text(h, rows[i + 1]) = <<>>

\* for i in range(len(rows) - 1), with i counted from 1
combine_table(h, table) ==
    LET rows == find_all(h, table, {"tr"})
    IN ForEach(LAMBDA g, i : IF both_empty(g, rows, i) THEN decompose(g, rows[i]) ELSE g,
               h, Tuple([i \in 1..(Len(rows) - 1) |-> i]))

combine_adjacent_empty_rows(h) ==
    ForEach(combine_table, h, find_all(h, Root, {"table"}))

(***************************************************************************)
(* Pass 6: add_table_captions.                                             *)
(***************************************************************************)
\* f"**{caption.get_text(strip=True)}**\n"
bold(text) == <<"*", "*">> \o text \o <<"*", "*", "\n">>

caption_table(h, table) ==
    LET captions == find_all(h, table, {"caption"})
    IN IF captions = <<>> THEN h
       ELSE decompose(
                insert_string_before(h, table, bold(get_text(h, captions[1]))),
                captions[1])

add_table_captions(h) ==
    ForEach(caption_table, h, find_all(h, Root, {"table"}))

(***************************************************************************)
(* The input documents.  BeautifulSoup(html, "html.parser") builds the     *)
(* tree; an input is described by its markup and parsed into a heap.       *)
(* A cell is <td|th attrs>strings tables</td>, a table is                  *)
(* <table>[<caption>..</caption>]<tr>..</tr>..</table>.                    *)
(***************************************************************************)
Cell(name, attrs, strs, tables) ==
    [tag |-> name, attrs |-> attrs, strs |-> strs, tables |-> tables]

Td(s) == Cell("td", NoAttrs, <<s>>, <<>>)

Table(caption, rows) == [caption |-> caption, rows |-> rows]

\* append a node as the last child of p
append_child(h, p, node) ==
    [Append(h, node) EXCEPT ![p].kids = Append(@, Len(h) + 1)]

parse_strings(h, p, strs) ==
    ForEach(LAMBDA g, s : append_child(g, p, NavigableString(p, s)), h, strs)

RECURSIVE parse_table(_, _, _)

parse_cell(h, row, cell) ==
    LET c == Len(h) + 1
        h1 == append_child(h, row, Tag(cell.tag, row, cell.attrs))
        h2 == parse_strings(h1, c, cell.strs)
    IN ForEach(LAMBDA g, table : parse_table(g, c, table), h2, cell.tables)

parse_row(h, table, cells) ==
    LET r == Len(h) + 1
        h1 == append_child(h, table, Tag("tr", table, NoAttrs))
    IN ForEach(LAMBDA g, cell : parse_cell(g, r, cell), h1, cells)

parse_table(h, p, table) ==
    LET t == Len(h) + 1
        h1 == append_child(h, p, Tag("table", p, NoAttrs))
        h2 == IF table.caption = <<>> THEN h1
              ELSE parse_strings(append_child(h1, t, Tag("caption", t, NoAttrs)),
                                 t + 1, table.caption)
    IN ForEach(LAMBDA g, cells : parse_row(g, t, cells), h2, table.rows)

\* the document: a line of text, then one table
BeautifulSoup(table) ==
    LET h0 == <<Tag("[document]", None, NoAttrs)>>
    IN parse_table(parse_strings(h0, Root, << <<"T", "\n">> >>), Root, table)

\* the rows a flat input table is made of
RowPalette ==
    { <<>>,
      <<Td(<<"A">>)>>,
      <<Td(<<" ">>)>>,
      <<Td(<<"A">>), Td(<<" ", "B", " ">>)>>,
      <<Cell("td", [rowspan |-> "2"], << <<"R">> >>, <<>>), Td(<<"B">>)>>,
      <<Td(<<"A">>), Cell("th", [rowspan |-> "3"], << <<"S">> >>, <<>>)>>,
      <<Cell("td", [colspan |-> "2"], << <<"C">> >>, <<>>)>>,
      <<Cell("td", [rowspan |-> "2", colspan |-> "2"], << <<"X">> >>, <<>>), Td(<<"B">>)>>,
      <<Cell("th", [rowspan |-> "1", colspan |-> "1"], << <<"H">> >>, <<>>),
        Cell("th", [colspan |-> "1"], << <<"K">> >>, <<>>)>>,
      <<Td(<<"A">>), Cell("td", [colspan |-> "x"], << <<"Q">> >>, <<>>)>> }

RECURSIVE RowLists(_)
RowLists(n) ==
    IF n = 0 THEN {<<>>}
    ELSE RowLists(n - 1)
         \cup {Append(rows, r) : rows \in RowLists(n - 1), r \in RowPalette}

\* flat tables: up to MaxRows rows of the palette, with or without a caption
FlatTables ==
    {Table(caption, rows) : caption \in {<<>>, << <<"N">> >>}, rows \in RowLists(MaxRows)}

\* tables with no table inside
LeafTables ==
    { Table(<<>>, <<>>),
      Table(<<>>, << <<Td(<<"a">>)>> >>),
      Table(<<>>, << <<Td(<<"a">>)>>, <<Td(<<"b">>)>> >>),
      Table(<<>>, << <<Td(<<"a">>), Td(<<"b">>)>> >>),
      Table(<<>>, << <<Cell("td", [colspan |-> "2"], << <<"h">> >>, <<>>)>>,
                     <<Td(<<"a">>), Td(<<"b">>)>> >>) }

\* the tables that hold the tables `inner` in one of their cells
Around(inner) ==
    { Table(<<>>, << <<Cell("td", NoAttrs, << <<"o">> >>, inner)>> >>),
      Table(<<>>, << <<Td(<<"p">>), Cell("td", NoAttrs, <<>>, inner)>> >>),
      Table(<<>>, << <<Td(<<"p">>), Td(<<"q">>)>>,
                     <<Cell("td", NoAttrs, << <<"o">> >>, inner)>> >>),
      Table(<<>>, << <<Cell("td", [colspan |-> "2"], << <<"h">> >>, inner)>>,
                     <<Td(<<"a">>), Td(<<"b">>)>> >>) }

\* tables nested to a depth of at most d: a cell holds one table of depth < d,
\* or two tables with no table inside
RECURSIVE NestedTables(_)
NestedTables(d) ==
    IF d = 0 THEN LeafTables
    ELSE LeafTables
         \cup UNION {Around(<<t>>) : t \in NestedTables(d - 1)}
         \cup UNION {Around(<<t, u>>) : t \in LeafTables, u \in LeafTables}

Inputs == FlatTables \cup NestedTables(MaxDepth)

(***************************************************************************)
(* parse_html_to_markdown_friendly_html: the six passes, in order, each on *)
(* the tree the one before left.  html is the document as parsed, which   *)
(* no pass changes; prev is the tree the last pass started from.           *)
(***************************************************************************)
Init ==
    /\ \E table \in Inputs : html = BeautifulSoup(table)
    /\ soup = html
    /\ prev = html
    /\ pc = "flatten"

Flatten ==
    /\ pc = "flatten"
    /\ soup' = flatten_single_column_tables(soup)
    /\ prev' = soup
    /\ UNCHANGED html
    /\ pc' = "promote"

Promote ==
    /\ pc = "promote"
    /\ soup' = promote_top_row_headers(soup)
    /\ prev' = soup
    /\ UNCHANGED html
    /\ pc' = "unnest"

Unnest ==
    /\ pc = "unnest"
    /\ soup' = unnest_nested_tables(soup)
    /\ prev' = soup
    /\ UNCHANGED html
    /\ pc' = "rebuild"

\* the ValueError of int() leaves the function: no string is returned
Rebuild ==
    /\ pc = "rebuild"
    /\ LET st == rebuild_tables_with_span_attributes(soup)
       IN /\ soup' = st.h
          /\ pc' = IF st.ok THEN "combine" ELSE "raised"
    /\ prev' = soup
    /\ UNCHANGED html

Combine ==
    /\ pc = "combine"
    /\ soup' = combine_adjacent_empty_rows(soup)
    /\ prev' = soup
    /\ UNCHANGED html
    /\ pc' = "captions"

Captions ==
    /\ pc = "captions"
    /\ soup' = add_table_captions(soup)
    /\ prev' = soup
    /\ UNCHANGED html
    /\ pc' = "returned"

Next == Flatten \/ Promote \/ Unnest \/ Rebuild \/ Combine \/ Captions

Spec == Init /\ [][Next]_vars

(***************************************************************************)
(* Vocabulary of the properties.                                           *)
(***************************************************************************)
Range(seq) == {seq[i] : i \in 1..Len(seq)}

\* the nodes of the document
DocNodes(h) == Range(Descendants(h, Root))

Tables(h) == find_all(h, Root, {"table"})

Rows(h, table) == find_all(h, table, {"tr"})

Cells(h, row) == find_all(h, row, CellTags)

\* the tables of the document that lie in no other table
TopLevelTables(h) == SelectSeq(Tables(h), LAMBDA t : ~IsNested(h, t))

RECURSIVE Sum(_)
Sum(ns) == IF ns = <<>> THEN 0 ELSE Head(ns) + Sum(Tail(ns))

Passed(stages) == pc \in stages

AfterUnnest == {"rebuild", "combine", "captions", "returned", "raised"}

AfterRebuild == {"combine", "captions", "returned"}

(***************************************************************************)
(* C1.  After unnest_nested_tables no table lies inside a table, and that  *)
(* stays so to the end of the pipeline.  Right after the pass, the tables  *)
(* that lay inside a top-level table stand, in document order, as the      *)
(* siblings immediately before that table (the outermost of their former   *)
(* ancestors), and the cell that held each no longer contains it.          *)
(***************************************************************************)
HoistedBefore(top) ==
    LET nested == find_all(prev, top, {"table"})
        p == soup[top].parent
        at == index(soup, p, top)
    IN /\ p = prev[top].parent
       /\ at >= Len(nested)
       /\ SubSeq(soup[p].kids, at - Len(nested) + 1, at) = nested
       /\ \A i \in 1..Len(nested) :
             nested[i] \notin Range(Descendants(soup, prev[nested[i]].parent))

C1_NoTableInsideATable ==
    /\ Passed(AfterUnnest) =>
          LET tables == Tables(soup)
          IN \A i \in 1..Len(tables) : ~IsNested(soup, tables[i])
    /\ pc = "rebuild" =>
          LET tops == TopLevelTables(prev)
          IN \A i \in 1..Len(tops) : HoistedBefore(tops[i])

\* a table two tables deep, and a cell holding two tables, have been hoisted
C1_Witness ==
    /\ pc = "rebuild"
    /\ \E i \in 1..Len(Tables(prev)) : Len(TableAncestors(prev, Tables(prev)[i])) >= 2

(***************************************************************************)
(* C7.  combine_adjacent_empty_rows removes, of the rows a table has when  *)
(* the pass starts, exactly those that are textually empty and followed by *)
(* a textually empty row; the other rows stay, in order and unchanged.  So *)
(* a table of n >= 1 rows that are all empty keeps one row (loses n - 1).  *)
(***************************************************************************)
EmptyText(h, row) == get_text(h, row) = <<>>

RemovedByCombine(rows, i) ==
    /\ i < Len(rows)
    /\ EmptyText(prev, rows[i])
    /\ EmptyText(prev, rows[i + 1])

KeptRows(rows) ==
    LET RECURSIVE Keep(_)
        Keep(i) == IF i > Len(rows) THEN <<>>
                   ELSE (IF RemovedByCombine(rows, i) THEN <<>> ELSE <<rows[i]>>)
                        \o Keep(i + 1)
    IN Keep(1)

C7_EarlierOfEmptyPairRemoved ==
    pc = "captions" =>
       \A k \in 1..Len(Tables(prev)) :
          LET t == Tables(prev)[k]
              rows == Rows(prev, t)
              left == Rows(soup, t)
          IN /\ left = KeptRows(rows)
             /\ \A i \in 1..Len(left) : Markup(soup, left[i]) = Markup(prev, left[i])
             /\ (rows # <<>> /\ \A i \in 1..Len(rows) : EmptyText(prev, rows[i]))
                   => Len(left) = 1

\* a table of three or more rows, all of them empty, has been through the pass
C7_Witness ==
    /\ pc = "captions"
    /\ \E k \in 1..Len(Tables(prev)) :
          LET rows == Rows(prev, Tables(prev)[k])
          IN /\ Len(rows) >= 3
             /\ \A i \in 1..Len(rows) : EmptyText(prev, rows[i])

(***************************************************************************)
(* C8.  A rowspan or colspan that is no integer does not make Pass 4 fail: *)
(* the pass goes on to the next pass, and the pipeline returns.            *)
(***************************************************************************)
HasMalformedSpan(h) ==
    \E k \in 1..Len(Tables(h)) :
       \E i \in 1..Len(Rows(h, Tables(h)[k])) :
          \E j \in 1..Len(Cells(h, Rows(h, Tables(h)[k])[i])) :
             LET cell == Cells(h, Rows(h, Tables(h)[k])[i])[j]
             IN ~span_parses(h, cell, "rowspan") \/ ~span_parses(h, cell, "colspan")

C8_MalformedSpanIsDefaulted ==
    (Passed({"combine", "raised"}) /\ HasMalformedSpan(prev)) => pc = "combine"

(***************************************************************************)
(* C9.  A top-level table with no rows (and nothing else in it) is left    *)
(* alone by every pass: it stays where it was, with the same children, and *)
(* nothing is inserted next to it.                                         *)
(***************************************************************************)
C9_EmptyTableIsLeftAlone ==
    \A k \in 1..Len(TopLevelTables(html)) :
       LET t == TopLevelTables(html)[k]
       IN html[t].kids = <<>> =>
             /\ soup[html[t].parent].kids = html[html[t].parent].kids
             /\ soup[t] = html[t]

(***************************************************************************)
(* The grid an HTML table describes: a cell occupies colspan columns of    *)
(* its own row and of the rowspan - 1 rows below it.                       *)
(***************************************************************************)
SpansParse(h, table) ==
    \A i \in 1..Len(Rows(h, table)) :
       \A j \in 1..Len(Cells(h, Rows(h, table)[i])) :
          LET cell == Cells(h, Rows(h, table)[i])[j]
          IN span_parses(h, cell, "rowspan") /\ span_parses(h, cell, "colspan")

\* the columns the cells of row j take in row i >= j
ColumnsFrom(h, rows, j, i) ==
    LET cells == Cells(h, rows[j])
    IN Sum(Tuple([c \in 1..Len(cells) |->
                     IF j = i \/ j + span(h, cells[c], "rowspan") - 1 >= i
                     THEN span(h, cells[c], "colspan")
                     ELSE 0]))

\* the number of columns row i takes, the cells spanning into it counted
LogicalWidth(h, rows, i) ==
    Sum(Tuple([j \in 1..i |-> ColumnsFrom(h, rows, j, i)]))

\* every row of the table takes the same number of columns
WellFormedGrid(h, table) ==
    LET rows == Rows(h, table)
    IN /\ rows # <<>>
       /\ SpansParse(h, table)
       /\ \A i \in 1..Len(rows) : LogicalWidth(h, rows, i) = LogicalWidth(h, rows, 1)

ColumnCount(h, table) ==
    LET rows == Rows(h, table)
    IN CHOOSE w \in {LogicalWidth(h, rows, i) : i \in 1..Len(rows)} :
          \A i \in 1..Len(rows) : LogicalWidth(h, rows, i) <= w

(***************************************************************************)
(* C2.  After rebuild_tables_with_span_attributes every row of a table has *)
(* as many cells as the table has columns, whatever rowspans and colspans  *)
(* its cells carried (stated for the tables whose cells describe a grid).  *)
(***************************************************************************)
C2_RectangularGrid ==
    pc = "combine" =>
       \A k \in 1..Len(Tables(prev)) :
          LET t == Tables(prev)[k]
          IN WellFormedGrid(prev, t) =>
                \A i \in 1..Len(Rows(soup, t)) :
                   Len(Cells(soup, Rows(soup, t)[i])) = ColumnCount(prev, t)

(***************************************************************************)
(* C3.  As claimed: once Pass 4 has run no cell carries a rowspan or a     *)
(* colspan attribute, whatever integer the attribute held.                 *)
(***************************************************************************)
SpanAttrs == {"rowspan", "colspan"}

AllCells(h) == find_all(h, Root, CellTags)

DirectRows(h, table) == SelectSeq(h[table].kids, LAMBDA k : h[k].tag = "tr")

DirectCells(h, row) == SelectSeq(h[row].kids, LAMBDA k : h[k].tag \in CellTags)

LineBreak == [tag |-> "br", attrs |-> NoAttrs, str |-> <<>>, kids |-> <<>>]

ContentsWithBreaks(h, table) ==
    LET rows == DirectRows(h, table)
    IN Concat(Tuple([i \in 1..Len(rows) |->
          LET cell == DirectCells(h, rows[i])[1]
          IN Tuple([j \in 1..Len(h[cell].kids) |-> Markup(h, h[cell].kids[j])])
             \o <<LineBreak>>]))

OneCellInEveryRow(h, table) ==
    \A i \in 1..Len(Rows(h, table)) : Len(Cells(h, Rows(h, table)[i])) = 1

ExpectedList(h, table) ==
    LET rows == Rows(h, table)
    IN Concat(Tuple([i \in 1..Len(rows) |->
          (IF i = 1 THEN <<>> ELSE <<"\n">>)
          \o <<"-", " ">> \o get_text(h, Cells(h, rows[i])[1])]))

\* in soup, the child that stands where table stood in prev is a new string
ReplacedByList(table) ==
    LET p == prev[table].parent
        at == index(prev, p, table)
        n == soup[p].kids[at + 1]
    IN /\ Len(soup[p].kids) = Len(prev[p].kids)
       /\ n > Len(prev)
       /\ soup[n] = NavigableString(p, ExpectedList(prev, table))
       /\ table \notin DocNodes(soup)

FullWidthHeader(h, table) ==
    LET cells == Cells(h, Rows(h, table)[1])
    IN /\ Len(cells) = 1
       /\ "colspan" \in DOMAIN h[cells[1]].attrs
       /\ span(h, cells[1], "colspan") = ColumnCount(h, table)

NotAFullWidthRow(h, table) ==
    LET cells == Cells(h, Rows(h, table)[1])
    IN \/ cells = <<>>
       \/ \E j \in 1..Len(cells) : "colspan" \notin DOMAIN h[cells[j]].attrs
       \/ /\ \A j \in 1..Len(cells) : span(h, cells[j], "colspan") = 1
          /\ Len(cells) < ColumnCount(h, table)

HeadingBefore(table, text) ==
    LET p == soup[table].parent
        at == index(soup, p, table)
    IN /\ at >= 1
       /\ soup[soup[p].kids[at]].tag = "#text"
       /\ strip(soup[soup[p].kids[at]].str) = <<"#", "#", " ">> \o text

C5_PromotesOnlyFullWidthRow ==
    pc = "unnest" =>
       \A k \in 1..Len(TopLevelTables(prev)) :
          LET t == TopLevelTables(prev)[k]
              rows == Rows(prev, t)
          IN (rows # <<>> /\ SpansParse(prev, t) /\ find_all(prev, t, {"table"}) = <<>>) =>
                /\ FullWidthHeader(prev, t) =>
                      /\ Rows(soup, t) = Tail(rows)
                      /\ HeadingBefore(t, get_text(prev, rows[1]))
                /\ NotAFullWidthRow(prev, t) =>
                      /\ Markup(soup, t) = Markup(prev, t)
                      /\ soup[prev[t].parent].kids = prev[prev[t].parent].kids

(***************************************************************************)
(* C6.  As claimed: Passes 1 and 2 leave alone every table that lies       *)
(* inside a cell of another table, so that a one-column table in a cell is *)
(* still a table of the tree, as it was, when Pass 3 runs (stated for the  *)
(* tables in a cell that the passes do not take away with a table around   *)
(* them: no table around them has one cell in every row, and they do not   *)
(* lie in the first row of one).                                           *)
(***************************************************************************)
InFirstRowOf(h, table, n) ==
    /\ Rows(h, table) # <<>>
    /\ n \in Range(Descendants(h, Rows(h, table)[1]))

KeptByTablesAround(h, n) ==
    \A i \in 1..Len(TableAncestors(h, n)) :
       /\ ~(\A r \in 1..Len(Rows(h, TableAncestors(h, n)[i])) :
               Len(Cells(h, Rows(h, TableAncestors(h, n)[i])[r])) = 1)
       /\ ~InFirstRowOf(h, TableAncestors(h, n)[i], n)

SpanningCells(h, table) ==
    SelectSeq(find_all(h, table, CellTags),
              LAMBDA c : span(h, c, "rowspan") > 1 \/ span(h, c, "colspan") > 1)

C10_RowspanDuplicateInSameColumn ==
    pc = "combine" =>
       \A k \in 1..Len(Tables(prev)) :
          LET t == Tables(prev)[k]
              rows == Rows(prev, t)
          IN \A r \in 1..Len(rows) :
                \A c \in 1..Len(Cells(prev, rows[r])) :
                   LET cell == Cells(prev, rows[r])[c]
                       rowspan == span(prev, cell, "rowspan")
                   IN (rowspan > 1 /\ SpanningCells(prev, t) = <<cell>>) =>
                         /\ "rowspan" \notin DOMAIN soup[cell].attrs
                         /\ \A j \in (r + 1)..Min(r + rowspan - 1, Len(rows)) :
                               LET before == Cells(prev, rows[j])
                                   after == Cells(soup, rows[j])
                               IN Len(before) >= c - 1 =>
                                     /\ Len(after) = Len(before) + 1
                                     /\ after[c] > Len(prev)
                                     /\ get_text(soup, after[c]) = get_text(prev, cell)

====
